---- MODULE Spec2Model ----
(***************************************************************************)
(* Model of recipe_crawler.py (version 0.3.0): the MultiCrawler scheduler, *)
(* the per-site Crawler (frontier, visited list, ledger, dedup) and the    *)
(* URL tests.                                                              *)
(*                                                                         *)
(* Python strings that the code inspects (URLs, hrefs, licenses) are       *)
(* sequences of tokens: "https://a.com/r/1" is                             *)
(* <<"https://","a.com","/","r","/","1">>.  String equality is sequence    *)
(* equality and str.startswith is the prefix test on tokens.  Python's     *)
(* None is the one-token sequence None, which no string of the model uses. *)
(***************************************************************************)
EXTENDS Integers, Sequences, FiniteSets, TLC

VARIABLES
    recipe_limit,      \* MultiCrawler.recipe_limit
    num_recipes,       \* MultiCrawler.num_recipes
    crawlers,          \* MultiCrawler.crawlers: list of crawler objects (ids)
    inactive_crawler,  \* MultiCrawler.inactive_crawler: list of crawler objects
    crawler_iter,      \* MultiCrawler.crawler_iter: itertools.cycle state, or unset
    cr,                \* the Crawler objects: id -> fields
    pc,                \* position of the caller: "idle", "running", "returned", "raised"
    err,               \* the exception that last propagated to the caller
    nattempts,         \* number of add_crawler() calls made (object identities)
    h_nsteps,          \* history: number of crawl() calls issued by run()
    h_last,            \* history: the last crawl() call: its crawler, input and outcome
    h_signalled,       \* history: crawlers that raised AnchorListsEmptyError, in order
    h_robots_failed,   \* history: add_crawler() calls whose robots.txt fetch failed
    probe              \* pure-function probes: the call under test and its result

vars == <<recipe_limit, num_recipes, crawlers, inactive_crawler, crawler_iter, cr,
          pc, err, nattempts, h_nsteps, h_last, h_signalled, h_robots_failed, probe>>

---------------------------------------------------------------------------
(* Bounds of the model *)

\* add_crawler() is called at most this many times
MaxCrawlers == 2
\* recipe_limit is drawn from 0..MaxLimit
MaxLimit == 2
\* the ledgers handed to _has_similar_recipe on its own hold at most this many
\* records
MaxLedger == 2

---------------------------------------------------------------------------
(* Python values *)

None == <<"None">>
EmptyStr == <<>>

IsStr(v) == v # None

\* bool(v) of an Optional[str]
Truthy(v) == v # None /\ v # EmptyStr

Range(s) == {s[i] : i \in DOMAIN s}

Last(s) == s[Len(s)]

Front(s) == SubSeq(s, 1, Len(s) - 1)

\* list.pop(i) leaves this list (i is a 1-based position)
RemoveAt(s, i) == SubSeq(s, 1, i - 1) \o SubSeq(s, i + 1, Len(s))

RECURSIVE SeqsUpTo(_, _)
\* the lists over S of length at most n
SeqsUpTo(S, n) ==
    IF n = 0 THEN {<<>>}
    ELSE LET shorter == SeqsUpTo(S, n - 1)
         IN  shorter \cup {Append(q, x) : q \in {t \in shorter : Len(t) = n - 1}, x \in S}

\* str.startswith(prefix)
startswith(s, p) == Len(p) <= Len(s) /\ SubSeq(s, 1, Len(p)) = p

\* str.lower() of one token
LowerTok(t) ==
    CASE t = "A.COM" -> "a.com"
      [] t = "A.com" -> "a.com"
      [] t = "B.COM" -> "b.com"
      [] t = "HTTP://" -> "http://"
      [] t = "HTTPS://" -> "https://"
      [] t = "Proprietary" -> "proprietary"
      [] t = "PROPRIETARY" -> "proprietary"
      [] OTHER -> t

\* str.lower()
lower(s) == [i \in DOMAIN s |-> LowerTok(s[i])]

SchemeToks == {"http://", "https://", "HTTP://", "HTTPS://", "ftp://"}

---------------------------------------------------------------------------
(* urllib.parse on token strings *)

\* urllib.parse.urlsplit(url).netloc
netloc(url) ==
    IF Len(url) >= 2 /\ url[1] \in (SchemeToks \cup {"//"}) /\ url[2] # "/"
    THEN <<url[2]>>
    ELSE EmptyStr

\* the path part of an absolute URL: what follows scheme and authority
PathOf(url) ==
    IF Len(url) >= 2 /\ url[1] \in (SchemeToks \cup {"//"})
    THEN SubSeq(url, 3, Len(url))
    ELSE url

RECURSIVE LastSlash(_, _)
\* position of the last "/" token among the first n tokens, 0 when there is none
LastSlash(s, n) ==
    IF n = 0 THEN 0
    ELSE IF s[n] = "/" THEN n
    ELSE LastSlash(s, n - 1)

\* urllib.parse.urljoin(base, url) for an absolute base with an authority
urljoin(base, url) ==
    IF base = EmptyStr THEN url
    ELSE IF url = EmptyStr THEN base
    ELSE IF url[1] \in SchemeToks
         THEN IF LowerTok(url[1]) # LowerTok(base[1])
              THEN url
              ELSE <<LowerTok(url[1])>> \o Tail(url)
    ELSE IF url[1] = "//" THEN <<base[1]>> \o Tail(url)
    ELSE IF url[1] = "/" THEN <<base[1], base[2]>> \o url
    ELSE LET k == LastSlash(base, Len(base))
         IN  IF k >= 3 THEN SubSeq(base, 1, k) \o url
             ELSE <<base[1], base[2], "/">> \o url

---------------------------------------------------------------------------
(* class URLTest *)

\* URLTest.__init__: basesplit is None unless a base URL was given
URLTest_init(baseurl) ==
    [baseurl |-> baseurl,
     basesplit |-> IF Truthy(baseurl) THEN netloc(baseurl) ELSE None]

\* URLTest.is_absolute_url
is_absolute_url(url) ==
    startswith(url, <<"http://">>) \/ startswith(url, <<"https://">>)

\* mutant: the two authorities are compared as written, without lower()
is_same_domain_case_sensitive(ut, url) == ut.basesplit = netloc(url)

\* URLTest.is_same_domain (basesplit is never None for a constructed Crawler)
is_same_domain(ut, url) == lower(ut.basesplit) = lower(netloc(url))

---------------------------------------------------------------------------
(* The environment: sites, their robots.txt, their pages *)

UrlA == <<"https://", "a.com", "/">>
UrlB == <<"https://", "b.com", "/">>
UrlA_r == <<"https://", "a.com", "/", "r", "/">>
UrlA_r1 == <<"https://", "a.com", "/", "r", "/", "1">>
UrlA_x == <<"https://", "a.com", "/", "x">>
UrlLicense == <<"https://", "cc.org", "/", "by">>
UrlPageLicense == <<"https://", "cc.org", "/", "zero">>

\* the arguments main() passes to add_crawler for the configured sites:
\* two of them share a base URL
SiteConfigs ==
    { [url |-> UrlA, recipe_url |-> UrlA_r, license |-> UrlLicense, start_url |-> None,
       site_title |-> "Site A"],
      [url |-> UrlB, recipe_url |-> None, license |-> None, start_url |-> EmptyStr,
       site_title |-> "Site B"],
      [url |-> UrlA, recipe_url |-> EmptyStr, license |-> <<"Proprietary">>,
       start_url |-> UrlA_x, site_title |-> "Site A, index"] }

\* robots.txt of a site: Disallow path prefixes by user-agent group
RobotsFile(url) ==
    IF netloc(url) = <<"a.com">>
    THEN [star |-> {}, RecipeCrawlerPY |-> {<<"/", "x">>}]
    ELSE [star |-> {<<"/", "x">>}, RecipeCrawlerPY |-> {}]

\* the hrefs of the anchors of the pages the sites serve, in page order
\* (a.get("href") is None for an anchor without href)
AnchorLists ==
    { <<>>,
      << <<"/", "x">> >>,
      << <<"/", "r", "/", "1">>, <<"/", "x">> >>,
      << <<"/", "x">>, <<"/", "r", "/", "1">>, <<"/", "x">> >>,
      << None, <<"#", "top">>, <<"https://", "b.com", "/", "x">> >> }

\* schema.org/Recipe dictionaries as scrape_schema_recipe.loads returns them
RecipePizza ==
    [url |-> None, name |-> "pizza", recipeInstructions |-> "bake",
     recipeIngredient |-> "dough", license |-> None]

RecipeTaco ==
    [url |-> UrlA_r1, name |-> "taco", recipeInstructions |-> "fold",
     recipeIngredient |-> "corn", license |-> UrlPageLicense]

\* what scrape_schema_recipe.loads may return for a page
ScrapeLists == {<<>>, <<RecipePizza>>, <<RecipeTaco>>, <<RecipePizza, RecipeTaco>>}

\* Content-Length of a response (or len(resp.text) without the header)
ContentLengths == {1}

---------------------------------------------------------------------------
(* class Crawler *)

\* reppy: robots.agent(name).allowed(url) for the rules of one user-agent group
allowed(agent, url) == \A p \in agent : ~startswith(PathOf(url), p)

\* the attributes Crawler.__init__ sets, given the robots agent it obtained
Crawler_fields(url, recipe_url, license, start_url, site_title, agent) ==
    [base_url |-> url,
     url_list_high |-> IF Truthy(start_url) THEN <<start_url>> ELSE <<url>>,
     url_list_low |-> <<>>,
     recipe_json |-> <<>>,
     been_there_urls |-> <<>>,
     num_get_calls |-> 0,
     num_bytes_downloaded |-> 0,
     site_title |-> site_title,
     recipe_url |-> IF recipe_url = None THEN EmptyStr ELSE recipe_url,
     license |-> IF Truthy(license) /\ lower(license) # <<"proprietary">>
                    /\ is_absolute_url(license)
                 THEN license ELSE EmptyStr,
     agent |-> agent,
     urltest |-> URLTest_init(url),
     cls |-> "Crawler"]

\* mutant: a failed robots.txt fetch is swallowed and treated as "allow all"
Crawler_init_allow_all(url, recipe_url, license, start_url, site_title, robots_ok) ==
    [raised |-> FALSE,
     obj |-> Crawler_fields(url, recipe_url, license, start_url, site_title,
                            IF robots_ok
                            THEN RobotsFile(urljoin(url, <<"robots.txt">>)).star
                            ELSE {})]

\* Crawler.__init__: the new object, or the exception it raises
Crawler_init(url, recipe_url, license, start_url, site_title, robots_ok) ==
    IF ~robots_ok
    THEN [raised |-> TRUE, exc |-> "RecipeCrawlerNetworkError"]
    ELSE [raised |-> FALSE,
          obj |-> Crawler_fields(url, recipe_url, license, start_url, site_title,
                                 RobotsFile(urljoin(url, <<"robots.txt">>)).star)]

\* RecipeScrapersCrawler.__init__: picks the driver, then Crawler.__init__
RecipeScrapersCrawler_init(url, recipe_url, license, start_url, site_title, robots_ok) ==
    LET base == Crawler_init(url, recipe_url, license, start_url, site_title, robots_ok)
    IN  IF base.raised THEN base
        ELSE [raised |-> FALSE, obj |-> [base.obj EXCEPT !.cls = "RecipeScrapersCrawler"]]

\* mutant: the recipe-path prefix is tested before the visited list
rank_url_prefix_first(self, href) ==
    IF ~IsStr(href) THEN <<-1, href>>
    ELSE IF startswith(href, <<"#">>) \/ startswith(href, <<"javascript:">>)
            \/ startswith(href, <<"mailto:">>)
         THEN <<-2, href>>
    ELSE IF is_absolute_url(href) /\ ~is_same_domain(self.urltest, href)
         THEN <<-3, href>>
    ELSE LET url == IF is_absolute_url(href) THEN href ELSE urljoin(self.base_url, href)
         IN  IF self.recipe_url # EmptyStr /\ startswith(url, self.recipe_url)
             THEN <<1, url>>
             ELSE IF url \in Range(self.been_there_urls) THEN <<-4, url>>
             ELSE IF ~allowed(self.agent, url) THEN <<-5, url>>
             ELSE <<0, url>>

\* mutant: the prefix test without the test that a recipe path is configured
rank_url_any_prefix(self, href) ==
    IF ~IsStr(href) THEN <<-1, href>>
    ELSE IF startswith(href, <<"#">>) \/ startswith(href, <<"javascript:">>)
            \/ startswith(href, <<"mailto:">>)
         THEN <<-2, href>>
    ELSE IF is_absolute_url(href) /\ ~is_same_domain(self.urltest, href)
         THEN <<-3, href>>
    ELSE LET url == IF is_absolute_url(href) THEN href ELSE urljoin(self.base_url, href)
         IN  IF url \in Range(self.been_there_urls) THEN <<-4, url>>
             ELSE IF ~allowed(self.agent, url) THEN <<-5, url>>
             ELSE IF startswith(url, self.recipe_url) THEN <<1, url>>
             ELSE <<0, url>>

\* mutant: without the test for hrefs that do not lead to a page
rank_url_no_link_test(self, href) ==
    IF ~IsStr(href) THEN <<-1, href>>
    ELSE IF is_absolute_url(href) /\ ~is_same_domain(self.urltest, href)
         THEN <<-3, href>>
    ELSE LET url == IF is_absolute_url(href) THEN href ELSE urljoin(self.base_url, href)
         IN  IF url \in Range(self.been_there_urls) THEN <<-4, url>>
             ELSE IF ~allowed(self.agent, url) THEN <<-5, url>>
             ELSE IF self.recipe_url # EmptyStr /\ startswith(url, self.recipe_url)
                  THEN <<1, url>>
             ELSE <<0, url>>

\* mutant: without the test against been_there_urls
rank_url_no_visited_test(self, href) ==
    IF ~IsStr(href) THEN <<-1, href>>
    ELSE IF startswith(href, <<"#">>) \/ startswith(href, <<"javascript:">>)
            \/ startswith(href, <<"mailto:">>)
         THEN <<-2, href>>
    ELSE IF is_absolute_url(href) /\ ~is_same_domain(self.urltest, href)
         THEN <<-3, href>>
    ELSE LET url == IF is_absolute_url(href) THEN href ELSE urljoin(self.base_url, href)
         IN  IF ~allowed(self.agent, url) THEN <<-5, url>>
             ELSE IF self.recipe_url # EmptyStr /\ startswith(url, self.recipe_url)
                  THEN <<1, url>>
             ELSE <<0, url>>

\* Crawler._rank_url: <<score, absolute url>>
rank_url(self, href) ==
    IF ~IsStr(href) THEN <<-1, href>>
    ELSE IF startswith(href, <<"#">>) \/ startswith(href, <<"javascript:">>)
            \/ startswith(href, <<"mailto:">>)
         THEN <<-2, href>>
    ELSE IF is_absolute_url(href) /\ ~is_same_domain(self.urltest, href)
         THEN <<-3, href>>
    ELSE LET url == IF is_absolute_url(href) THEN href ELSE urljoin(self.base_url, href)
         IN  IF url \in Range(self.been_there_urls) THEN <<-4, url>>
             ELSE IF ~allowed(self.agent, url) THEN <<-5, url>>
             ELSE IF self.recipe_url # EmptyStr /\ startswith(url, self.recipe_url)
                  THEN <<1, url>>
             ELSE <<0, url>>

RECURSIVE mine_anchors_append_always(_, _)
\* mutant: every url of score 1 or 0 is appended, already listed or not
mine_anchors_append_always(self, anchors) ==
    IF anchors = <<>> THEN self
    ELSE LET ranked == rank_url(self, Head(anchors))
             next ==
                 IF ranked[1] = 1
                 THEN [self EXCEPT !.url_list_high = Append(@, ranked[2])]
                 ELSE IF ranked[1] = 0
                 THEN [self EXCEPT !.url_list_low = Append(@, ranked[2])]
                 ELSE self
         IN  mine_anchors_append_always(next, Tail(anchors))

RECURSIVE mine_anchors(_, _)
\* Crawler._mine_anchors over the hrefs of the page's anchors, in page order
mine_anchors(self, anchors) ==
    IF anchors = <<>> THEN self
    ELSE LET ranked == rank_url(self, Head(anchors))
             score == ranked[1]
             url == ranked[2]
             next ==
                 IF score = 1
                 THEN IF url \notin Range(self.url_list_high)
                      THEN [self EXCEPT !.url_list_high = Append(@, url)]
                      ELSE self
                 ELSE IF score = 0
                 THEN IF url \notin Range(self.url_list_low)
                      THEN [self EXCEPT !.url_list_low = Append(@, url)]
                      ELSE self
                 ELSE self
         IN  mine_anchors(next, Tail(anchors))

RECURSIVE similar_from_all_fields(_, _, _)
\* mutant: an entry is similar only when url and name, instructions and
\* ingredients are all equal
similar_from_all_fields(ledger, recipe, i) ==
    IF i > Len(ledger) THEN -1
    ELSE IF /\ ledger[i].url = recipe.url
            /\ ledger[i].name = recipe.name
            /\ ledger[i].recipeInstructions = recipe.recipeInstructions
            /\ ledger[i].recipeIngredient = recipe.recipeIngredient
         THEN i - 1
    ELSE similar_from_all_fields(ledger, recipe, i + 1)

RECURSIVE similar_from(_, _, _)
\* the loop of Crawler._has_similar_recipe from list position i (1-based);
\* the result is Python's 0-based index, or -1
similar_from(ledger, recipe, i) ==
    IF i > Len(ledger) THEN -1
    ELSE IF ledger[i].url = recipe.url THEN i - 1
    ELSE IF /\ ledger[i].name = recipe.name
            /\ ledger[i].recipeInstructions = recipe.recipeInstructions
            /\ ledger[i].recipeIngredient = recipe.recipeIngredient
         THEN i - 1
    ELSE similar_from(ledger, recipe, i + 1)

\* mutant: no stored record is ever judged similar
has_similar_recipe_never(self, recipe) == -1

\* Crawler._has_similar_recipe
has_similar_recipe(self, recipe) ==
    IF Len(self.recipe_json) < 1 THEN -1
    ELSE similar_from(self.recipe_json, recipe, 1)

RECURSIVE pick_url_fifo(_, _)
\* mutant: the high list is used as a queue, its oldest url is taken
pick_url_fifo(self, r) ==
    IF Len(self.url_list_high) > 0
    THEN LET url == Head(self.url_list_high)
             popped == [self EXCEPT !.url_list_high = Tail(@)]
         IN  IF Truthy(url) THEN [raised |-> FALSE, url |-> url, self |-> popped]
             ELSE pick_url_fifo(popped, r)
    ELSE IF Len(self.url_list_low) > 0
    THEN LET i == (r % Len(self.url_list_low)) + 1
             url == self.url_list_low[i]
             popped == [self EXCEPT !.url_list_low = RemoveAt(@, i)]
         IN  IF Truthy(url) THEN [raised |-> FALSE, url |-> url, self |-> popped]
             ELSE pick_url_fifo(popped, r)
    ELSE [raised |-> TRUE, exc |-> "AnchorListsEmptyError", self |-> self]

RECURSIVE pick_url(_, _)
\* the url-picking loop of Crawler._download_page; r is randint's draw, used
\* modulo the length of the low list
pick_url(self, r) ==
    IF Len(self.url_list_high) > 0
    THEN LET url == Last(self.url_list_high)
             popped == [self EXCEPT !.url_list_high = Front(@)]
         IN  IF Truthy(url) THEN [raised |-> FALSE, url |-> url, self |-> popped]
             ELSE pick_url(popped, r)
    ELSE IF Len(self.url_list_low) > 0
    THEN LET i == (r % Len(self.url_list_low)) + 1
             url == self.url_list_low[i]
             popped == [self EXCEPT !.url_list_low = RemoveAt(@, i)]
         IN  IF Truthy(url) THEN [raised |-> FALSE, url |-> url, self |-> popped]
             ELSE pick_url(popped, r)
    ELSE [raised |-> TRUE, exc |-> "AnchorListsEmptyError", self |-> self]

\* mutant: a failed requests.get is swallowed and the page treated as fetched
download_page_ignores_failure(self, r, resp) ==
    LET picked == pick_url(self, r)
    IN  IF picked.raised THEN picked
        ELSE [raised |-> FALSE, url |-> picked.url,
              self |-> [picked.self EXCEPT
                           !.been_there_urls = Append(@, picked.url),
                           !.num_get_calls = @ + 1,
                           !.num_bytes_downloaded = @ + resp.length]]

\* Crawler._download_page: resp is what requests.get does for the picked url
download_page(self, r, resp) ==
    LET picked == pick_url(self, r)
    IN  IF picked.raised THEN picked
        ELSE LET visiting == [picked.self EXCEPT
                                 !.been_there_urls = Append(@, picked.url),
                                 !.num_get_calls = @ + 1]
             IN  IF ~resp.ok
                 THEN [raised |-> TRUE, exc |-> "RequestException", self |-> visiting]
                 ELSE [raised |-> FALSE, url |-> picked.url,
                       self |-> [visiting EXCEPT !.num_bytes_downloaded = @ + resp.length]]

\* Crawler._scrape_page: None, one dictionary, or the list of several
Crawler_scrape_page(self, url, recipe) ==
    IF Len(recipe) > 0
    THEN IF Len(recipe) = 1
         THEN LET with_url == IF recipe[1].url = None
                              THEN [recipe[1] EXCEPT !.url = url] ELSE recipe[1]
                  with_license == IF Truthy(self.license) /\ with_url.license = None
                                  THEN [with_url EXCEPT !.license = self.license]
                                  ELSE with_url
              IN  [kind |-> "dict", dict |-> with_license]
         ELSE [kind |-> "list", list |-> recipe]
    ELSE [kind |-> "None"]

\* RecipeScrapersCrawler._scrape_page with _convert_recipe_scraper_to_schema_dict:
\* None when the driver finds no ingredients, else a dictionary built from the page
RecipeScrapers_scrape_page(self, url, recipe) ==
    IF Len(recipe) = 0 THEN [kind |-> "None"]
    ELSE [kind |-> "dict",
          dict |-> [url |-> url, name |-> recipe[1].name,
                    recipeInstructions |-> recipe[1].recipeInstructions,
                    recipeIngredient |-> recipe[1].recipeIngredient,
                    license |-> self.license]]

\* the _scrape_page of the object's class
scrape_page(self, url, recipe) ==
    IF self.cls = "RecipeScrapersCrawler"
    THEN RecipeScrapers_scrape_page(self, url, recipe)
    ELSE Crawler_scrape_page(self, url, recipe)

\* mutant: the list branch runs the statements after the raise instead of
\* raising: every record of the page is counted and stored
crawl_extends_list(self, r, resp) ==
    LET page == download_page(self, r, resp)
    IN  IF page.raised THEN [raised |-> TRUE, exc |-> page.exc, self |-> page.self]
        ELSE LET scrapings == scrape_page(page.self, page.url, resp.recipes)
                 mined == mine_anchors(page.self, resp.anchors)
             IN  IF scrapings.kind = "None"
                 THEN [raised |-> FALSE, num_recipes |-> 0, self |-> mined]
                 ELSE IF scrapings.kind = "dict"
                 THEN IF has_similar_recipe(mined, scrapings.dict) = -1
                      THEN [raised |-> FALSE, num_recipes |-> 1,
                            self |-> [mined EXCEPT !.recipe_json = Append(@, scrapings.dict)]]
                      ELSE [raised |-> FALSE, num_recipes |-> 0, self |-> mined]
                 ELSE [raised |-> FALSE, num_recipes |-> Len(scrapings.list),
                       self |-> [mined EXCEPT !.recipe_json = @ \o scrapings.list]]

\* mutant: a record judged similar is not stored but is still counted
crawl_counts_similar(self, r, resp) ==
    LET page == download_page(self, r, resp)
    IN  IF page.raised THEN [raised |-> TRUE, exc |-> page.exc, self |-> page.self]
        ELSE LET scrapings == scrape_page(page.self, page.url, resp.recipes)
                 mined == mine_anchors(page.self, resp.anchors)
             IN  IF scrapings.kind = "None"
                 THEN [raised |-> FALSE, num_recipes |-> 0, self |-> mined]
                 ELSE IF scrapings.kind = "dict"
                 THEN IF has_similar_recipe(mined, scrapings.dict) = -1
                      THEN [raised |-> FALSE, num_recipes |-> 1,
                            self |-> [mined EXCEPT !.recipe_json = Append(@, scrapings.dict)]]
                      ELSE [raised |-> FALSE, num_recipes |-> 1, self |-> mined]
                 ELSE [raised |-> TRUE, exc |-> "TypeError", self |-> mined]

\* mutant: a record judged similar replaces the stored record it is similar to
crawl_replaces_similar(self, r, resp) ==
    LET page == download_page(self, r, resp)
    IN  IF page.raised THEN [raised |-> TRUE, exc |-> page.exc, self |-> page.self]
        ELSE LET scrapings == scrape_page(page.self, page.url, resp.recipes)
                 mined == mine_anchors(page.self, resp.anchors)
             IN  IF scrapings.kind = "None"
                 THEN [raised |-> FALSE, num_recipes |-> 0, self |-> mined]
                 ELSE IF scrapings.kind = "dict"
                 THEN LET similar_idx == has_similar_recipe(mined, scrapings.dict)
                      IN  IF similar_idx = -1
                          THEN [raised |-> FALSE, num_recipes |-> 1,
                                self |-> [mined EXCEPT
                                             !.recipe_json = Append(@, scrapings.dict)]]
                          ELSE [raised |-> FALSE, num_recipes |-> 0,
                                self |-> [mined EXCEPT
                                             !.recipe_json[similar_idx + 1] = scrapings.dict]]
                 ELSE [raised |-> TRUE, exc |-> "TypeError", self |-> mined]

\* Crawler.crawl: the crawler after the call, and either the count returned or
\* the exception raised
crawl(self, r, resp) ==
    LET page == download_page(self, r, resp)
    IN  IF page.raised THEN [raised |-> TRUE, exc |-> page.exc, self |-> page.self]
        ELSE LET scrapings == scrape_page(page.self, page.url, resp.recipes)
                 mined == mine_anchors(page.self, resp.anchors)
             IN  IF scrapings.kind = "None"
                 THEN [raised |-> FALSE, num_recipes |-> 0, self |-> mined]
                 ELSE IF scrapings.kind = "dict"
                 THEN IF has_similar_recipe(mined, scrapings.dict) = -1
                      THEN [raised |-> FALSE, num_recipes |-> 1,
                            self |-> [mined EXCEPT !.recipe_json = Append(@, scrapings.dict)]]
                      ELSE [raised |-> FALSE, num_recipes |-> 0, self |-> mined]
                 ELSE [raised |-> TRUE, exc |-> "TypeError", self |-> mined]

---------------------------------------------------------------------------
(* itertools.cycle over the live list self.crawlers *)

\* the attribute before add_crawler has ever run: __init__ does not set it
IterUnset == [set |-> FALSE, src |-> 0, src_done |-> FALSE, saved |-> <<>>, index |-> 0]

\* cycle(self.crawlers): a list iterator at position 0 and nothing saved
cycle == [set |-> TRUE, src |-> 0, src_done |-> FALSE, saved |-> <<>>, index |-> 0]

\* mutant: the replay never advances, so it yields the first saved item forever
cycle_next_stuck(it, list) ==
    IF ~it.src_done /\ it.src < Len(list)
    THEN [raised |-> FALSE, item |-> list[it.src + 1],
          it |-> [it EXCEPT !.src = @ + 1, !.saved = Append(@, list[it.src + 1])]]
    ELSE IF Len(it.saved) = 0
    THEN [raised |-> TRUE, exc |-> "StopIteration", it |-> [it EXCEPT !.src_done = TRUE]]
    ELSE [raised |-> FALSE, item |-> it.saved[it.index + 1],
          it |-> [it EXCEPT !.src_done = TRUE]]

\* next(it): the first pass reads the list and saves each item, later passes
\* replay the saved items; StopIteration when there is nothing to replay
cycle_next(it, list) ==
    IF ~it.src_done /\ it.src < Len(list)
    THEN [raised |-> FALSE, item |-> list[it.src + 1],
          it |-> [it EXCEPT !.src = @ + 1, !.saved = Append(@, list[it.src + 1])]]
    ELSE IF Len(it.saved) = 0
    THEN [raised |-> TRUE, exc |-> "StopIteration", it |-> [it EXCEPT !.src_done = TRUE]]
    ELSE [raised |-> FALSE, item |-> it.saved[it.index + 1],
          it |-> [it EXCEPT !.src_done = TRUE,
                            !.index = IF @ + 1 >= Len(it.saved) THEN 0 ELSE @ + 1]]

---------------------------------------------------------------------------
(* class MultiCrawler *)

\* the class add_crawler instantiates for a site
UsesRecipeScrapers(url) ==
    "myplate.gov" \in Range(url) \/ "healthyeating.nhlbi.nih.gov" \in Range(url)

\* the constructor call of add_crawler
new_crawler(url, recipe_url, license, start_url, site_title, robots_ok) ==
    IF UsesRecipeScrapers(url)
    THEN RecipeScrapersCrawler_init(url, recipe_url, license, start_url, site_title, robots_ok)
    ELSE Crawler_init(url, recipe_url, license, start_url, site_title, robots_ok)

RECURSIVE find_base_url(_, _, _, _)
\* the search of remove_crawler: the first position from i on whose crawler
\* has this base_url, 0 when there is none
find_base_url(list, objs, base_url, i) ==
    IF i > Len(list) THEN 0
    ELSE IF objs[list[i]].base_url = base_url THEN i
    ELSE find_base_url(list, objs, base_url, i + 1)

\* mutant: the iterator is not rebuilt after the pop
remove_crawler_keeps_iter(list, inactive, it, objs, base_url) ==
    LET i == find_base_url(list, objs, base_url, 1)
    IN  IF i = 0
        THEN [found |-> FALSE, crawlers |-> list, inactive_crawler |-> inactive, it |-> it]
        ELSE [found |-> TRUE, crawlers |-> RemoveAt(list, i),
              inactive_crawler |-> Append(inactive, list[i]), it |-> it]

\* MultiCrawler.remove_crawler: the lists and iterator after the call, and
\* the value returned
remove_crawler(list, inactive, it, objs, base_url) ==
    LET i == find_base_url(list, objs, base_url, 1)
    IN  IF i = 0
        THEN [found |-> FALSE, crawlers |-> list, inactive_crawler |-> inactive, it |-> it]
        ELSE [found |-> TRUE, crawlers |-> RemoveAt(list, i),
              inactive_crawler |-> Append(inactive, list[i]), it |-> cycle]

\* mutant: the target test is off by one
loop_condition_off_by_one(n, limit, list) == n <= limit \/ Len(list) < 1

\* mutant: the loop goes on while any crawler is left, whatever the counter
loop_condition_no_target(n, limit, list) == Len(list) >= 1

\* the while condition of MultiCrawler.run
loop_condition(n, limit, list) == n < limit \/ Len(list) < 1

RECURSIVE extend_all(_, _, _)
\* ret.extend(c.recipe_json) for the crawlers of list from position i on
extend_all(list, objs, i) ==
    IF i > Len(list) THEN <<>>
    ELSE objs[list[i]].recipe_json \o extend_all(list, objs, i + 1)

\* MultiCrawler.results_dict
results_dict == extend_all(crawlers, cr, 1)

---------------------------------------------------------------------------
(* Inputs of one crawl() call *)

FailedResponse == [ok |-> FALSE, anchors |-> <<>>, recipes |-> <<>>, length |-> 0]

Responses ==
    {FailedResponse} \cup
    [ok : {TRUE}, anchors : AnchorLists, recipes : ScrapeLists,
     length : ContentLengths]

\* the values randint(0, len(low) - 1) can return
RandDraws(self) ==
    IF Len(self.url_list_low) > 0 THEN 0 .. (Len(self.url_list_low) - 1) ELSE {0}

NoProbe == [fn |-> "none"]

\* h_last before the first loop iteration; fetch is what requests.get did in the
\* iteration ("ok", "failed", or "none" when no url was picked), count is the
\* number crawl() returned, again tells that the crawler had been called
\* before, gap is the set of crawlers called since then
NoTick ==
    [kind |-> "none", id |-> 0, nscraped |-> 0, fetch |-> "none", count |-> 0,
     again |-> FALSE, gap |-> {}, since |-> <<>>]

\* history of the rotation: since[i] is the set of crawlers run() has called
\* since its last call of crawler i; this is since after a call of crawler c
StepSince(since, c) ==
    [i \in DOMAIN since \cup {c} |-> IF i = c THEN {} ELSE since[i] \cup {c}]

\* the rotation fields of h_last after a call of crawler c: whether c was
\* called before, and the crawlers called in between
StepGap(since, c) == IF c \in DOMAIN since THEN since[c] ELSE {}

---------------------------------------------------------------------------
(* The program: main() registers the sites, calls run() once, reads results *)

Init ==
    /\ recipe_limit \in 0 .. MaxLimit
    /\ num_recipes = 0
    /\ crawlers = <<>>
    /\ inactive_crawler = <<>>
    /\ crawler_iter = IterUnset
    /\ cr = <<>>
    /\ pc = "idle"
    /\ err = "none"
    /\ nattempts = 0
    /\ h_nsteps = 0
    /\ h_last = NoTick
    /\ h_signalled = <<>>
    /\ h_robots_failed = {}
    /\ probe = NoProbe

\* the sites of the configuration that main() has not registered yet: each
\* site of the website list is registered once
Unregistered ==
    {cfg \in SiteConfigs :
        \A i \in DOMAIN cr :
            ~(cr[i].base_url = cfg.url /\ cr[i].site_title = cfg.site_title)}

\* add_crawler() whose constructor succeeds
AddCrawler(cfg, robots_ok) ==
    LET made == new_crawler(cfg.url, cfg.recipe_url, cfg.license, cfg.start_url,
                            cfg.site_title, robots_ok)
        id == nattempts + 1
    IN  /\ pc = "idle"
        /\ nattempts < MaxCrawlers
        /\ ~made.raised
        /\ nattempts' = id
        /\ cr' = [i \in DOMAIN cr \cup {id} |-> IF i = id THEN made.obj ELSE cr[i]]
        /\ crawlers' = Append(crawlers, id)
        /\ crawler_iter' = cycle
        /\ h_robots_failed' = IF robots_ok THEN h_robots_failed
                               ELSE h_robots_failed \cup {id}
        /\ UNCHANGED <<recipe_limit, num_recipes, inactive_crawler, pc, err,
                       h_nsteps, h_last, h_signalled, probe>>

\* add_crawler() whose constructor raises: nothing is appended, the iterator is
\* not rebuilt
AddCrawlerRaises(cfg, robots_ok) ==
    LET made == new_crawler(cfg.url, cfg.recipe_url, cfg.license, cfg.start_url,
                            cfg.site_title, robots_ok)
        id == nattempts + 1
    IN  /\ pc = "idle"
        /\ nattempts < MaxCrawlers
        /\ made.raised
        /\ nattempts' = id
        /\ err' = made.exc
        /\ h_robots_failed' = IF robots_ok THEN h_robots_failed
                               ELSE h_robots_failed \cup {id}
        /\ UNCHANGED <<recipe_limit, num_recipes, crawlers, inactive_crawler,
                       crawler_iter, cr, pc, h_nsteps, h_last, h_signalled, probe>>

\* main() calls run()
Run ==
    /\ pc = "idle"
    /\ pc' = "running"
    /\ UNCHANGED <<recipe_limit, num_recipes, crawlers, inactive_crawler, crawler_iter,
                   cr, err, nattempts, h_nsteps, h_last, h_signalled, h_robots_failed, probe>>

\* the while condition is false: run() returns
RunReturn ==
    /\ pc = "running"
    /\ ~loop_condition(num_recipes, recipe_limit, crawlers)
    /\ pc' = "returned"
    /\ UNCHANGED <<recipe_limit, num_recipes, crawlers, inactive_crawler, crawler_iter,
                   cr, err, nattempts, h_nsteps, h_last, h_signalled, h_robots_failed,
                   probe>>

\* the loop body reads self.crawler_iter, which no add_crawler has set
RunIterUnset ==
    /\ pc = "running"
    /\ loop_condition(num_recipes, recipe_limit, crawlers)
    /\ ~crawler_iter.set
    /\ pc' = "raised"
    /\ err' = "AttributeError"
    /\ UNCHANGED <<recipe_limit, num_recipes, crawlers, inactive_crawler, crawler_iter,
                   cr, nattempts, h_nsteps, h_last, h_signalled, h_robots_failed, probe>>

\* next(self.crawler_iter) raises StopIteration: the cycle is over an empty list
RunStopIteration ==
    LET nxt == cycle_next(crawler_iter, crawlers)
    IN  /\ pc = "running"
        /\ loop_condition(num_recipes, recipe_limit, crawlers)
        /\ crawler_iter.set
        /\ nxt.raised
        /\ crawler_iter' = nxt.it
        /\ pc' = "raised"
        /\ err' = nxt.exc
        /\ UNCHANGED <<recipe_limit, num_recipes, crawlers, inactive_crawler,
                       cr, nattempts, h_nsteps, h_last, h_signalled, h_robots_failed,
                       probe>>

\* mutant: been_there_urls is one list shared by all Crawler objects
RunCrawl_shared_visited(r, resp) ==
    LET nxt == cycle_next(crawler_iter, crawlers)
        out == crawl(cr[nxt.item], r, resp)
    IN  /\ pc = "running"
        /\ loop_condition(num_recipes, recipe_limit, crawlers)
        /\ crawler_iter.set
        /\ ~nxt.raised
        /\ ~out.raised
        /\ crawler_iter' = nxt.it
        /\ cr' = [i \in DOMAIN cr |->
                    IF i = nxt.item THEN out.self
                    ELSE [cr[i] EXCEPT !.been_there_urls = out.self.been_there_urls]]
        /\ num_recipes' = num_recipes + out.num_recipes
        /\ h_nsteps' = h_nsteps + 1
        /\ h_last' = [kind |-> "count", id |-> nxt.item, nscraped |-> Len(resp.recipes),
                     fetch |-> IF resp.ok THEN "ok" ELSE "failed",
                     count |-> out.num_recipes,
                     again |-> nxt.item \in DOMAIN h_last.since,
                     gap |-> StepGap(h_last.since, nxt.item),
                     since |-> StepSince(h_last.since, nxt.item)]
        /\ UNCHANGED <<recipe_limit, crawlers, inactive_crawler, pc, err, nattempts,
                       h_signalled, h_robots_failed, probe>>

\* one loop iteration whose crawl() returns a count
RunCrawl(r, resp) ==
    LET nxt == cycle_next(crawler_iter, crawlers)
        out == crawl(cr[nxt.item], r, resp)
    IN  /\ pc = "running"
        /\ loop_condition(num_recipes, recipe_limit, crawlers)
        /\ crawler_iter.set
        /\ ~nxt.raised
        /\ ~out.raised
        /\ crawler_iter' = nxt.it
        /\ cr' = [cr EXCEPT ![nxt.item] = out.self]
        /\ num_recipes' = num_recipes + out.num_recipes
        /\ h_nsteps' = h_nsteps + 1
        /\ h_last' = [kind |-> "count", id |-> nxt.item, nscraped |-> Len(resp.recipes),
                     fetch |-> IF resp.ok THEN "ok" ELSE "failed",
                     count |-> out.num_recipes,
                     again |-> nxt.item \in DOMAIN h_last.since,
                     gap |-> StepGap(h_last.since, nxt.item),
                     since |-> StepSince(h_last.since, nxt.item)]
        /\ UNCHANGED <<recipe_limit, crawlers, inactive_crawler, pc, err, nattempts,
                       h_signalled, h_robots_failed, probe>>

\* one loop iteration whose crawl() raises AnchorListsEmptyError: the handler
\* calls remove_crawler and raises RuntimeError when that returns False
RunExhausted ==
    LET nxt == cycle_next(crawler_iter, crawlers)
        out == crawl(cr[nxt.item], 0, FailedResponse)
        rem == remove_crawler(crawlers, inactive_crawler, nxt.it, cr,
                              cr[nxt.item].base_url)
    IN  /\ pc = "running"
        /\ loop_condition(num_recipes, recipe_limit, crawlers)
        /\ crawler_iter.set
        /\ ~nxt.raised
        /\ out.raised
        /\ out.exc = "AnchorListsEmptyError"
        /\ cr' = [cr EXCEPT ![nxt.item] = out.self]
        /\ crawlers' = rem.crawlers
        /\ inactive_crawler' = rem.inactive_crawler
        /\ crawler_iter' = rem.it
        /\ pc' = IF rem.found THEN pc ELSE "raised"
        /\ err' = IF rem.found THEN err ELSE "RuntimeError"
        /\ h_nsteps' = h_nsteps + 1
        /\ h_last' = [kind |-> "exhausted", id |-> nxt.item, nscraped |-> 0,
                     fetch |-> "none", count |-> 0,
                     again |-> nxt.item \in DOMAIN h_last.since,
                     gap |-> StepGap(h_last.since, nxt.item),
                     since |-> StepSince(h_last.since, nxt.item)]
        /\ h_signalled' = Append(h_signalled, nxt.item)
        /\ UNCHANGED <<recipe_limit, num_recipes, nattempts, h_robots_failed, probe>>

\* one loop iteration whose crawl() raises anything else: run() does not catch it
RunCrawlRaises(r, resp) ==
    LET nxt == cycle_next(crawler_iter, crawlers)
        out == crawl(cr[nxt.item], r, resp)
    IN  /\ pc = "running"
        /\ loop_condition(num_recipes, recipe_limit, crawlers)
        /\ crawler_iter.set
        /\ ~nxt.raised
        /\ out.raised
        /\ out.exc # "AnchorListsEmptyError"
        /\ crawler_iter' = nxt.it
        /\ cr' = [cr EXCEPT ![nxt.item] = out.self]
        /\ pc' = "raised"
        /\ err' = out.exc
        /\ h_nsteps' = h_nsteps + 1
        /\ h_last' = [kind |-> "raise", id |-> nxt.item, nscraped |-> Len(resp.recipes),
                     fetch |-> IF resp.ok THEN "ok" ELSE "failed",
                     count |-> 0,
                     again |-> nxt.item \in DOMAIN h_last.since,
                     gap |-> StepGap(h_last.since, nxt.item),
                     since |-> StepSince(h_last.since, nxt.item)]
        /\ UNCHANGED <<recipe_limit, num_recipes, crawlers, inactive_crawler, nattempts,
                       h_signalled, h_robots_failed, probe>>

\* the crawler the next loop iteration selects, when there is one
CanStep ==
    /\ pc = "running"
    /\ loop_condition(num_recipes, recipe_limit, crawlers)
    /\ crawler_iter.set
    /\ ~cycle_next(crawler_iter, crawlers).raised

NextCrawler ==
    IF CanStep THEN cr[cycle_next(crawler_iter, crawlers).item]
    ELSE [url_list_low |-> <<>>]

Next ==
    \/ \E cfg \in Unregistered, ok \in BOOLEAN : AddCrawler(cfg, ok)
    \/ \E cfg \in Unregistered, ok \in BOOLEAN : AddCrawlerRaises(cfg, ok)
    \/ Run
    \/ RunReturn
    \/ RunIterUnset
    \/ RunStopIteration
    \/ \E r \in RandDraws(NextCrawler), resp \in Responses : RunCrawl(r, resp)
    \/ RunExhausted
    \/ \E r \in RandDraws(NextCrawler), resp \in Responses : RunCrawlRaises(r, resp)

Spec == Init /\ [][Next]_vars

---------------------------------------------------------------------------
(* Crawler._has_similar_recipe on its own: any ledger, any new record *)

\* recipe dictionaries over two values per compared key (url may be absent)
ProbeRecipes ==
    [url : {None, UrlA_r1}, name : {"pizza", "taco"},
     recipeInstructions : {"bake", "fold"}, recipeIngredient : {"dough", "corn"},
     license : {None}]

InitSimilar ==
    /\ recipe_limit = 0
    /\ num_recipes = 0
    /\ crawlers = <<>>
    /\ inactive_crawler = <<>>
    /\ crawler_iter = IterUnset
    /\ cr = <<>>
    /\ pc = "probe"
    /\ err = "none"
    /\ nattempts = 0
    /\ h_nsteps = 0
    /\ h_last = NoTick
    /\ h_signalled = <<>>
    /\ h_robots_failed = {}
    /\ probe \in [fn : {"has_similar_recipe"},
                  recipe_json : SeqsUpTo(ProbeRecipes, MaxLedger),
                  recipe : ProbeRecipes, done : {FALSE}, result : {-1}]

\* the call self._has_similar_recipe(recipe) on a crawler with that ledger
CallSimilar ==
    /\ pc = "probe"
    /\ probe.fn = "has_similar_recipe"
    /\ ~probe.done
    /\ probe' = [probe EXCEPT !.done = TRUE,
                               !.result = has_similar_recipe(
                                   [recipe_json |-> probe.recipe_json], probe.recipe)]
    /\ UNCHANGED <<recipe_limit, num_recipes, crawlers, inactive_crawler, crawler_iter,
                   cr, pc, err, nattempts, h_nsteps, h_last, h_signalled,
                   h_robots_failed>>

NextSimilar == CallSimilar

SpecSimilar == InitSimilar /\ [][NextSimilar]_vars

---------------------------------------------------------------------------
(* Properties of MultiCrawler *)

\* the crawlers that were constructed, in registration order
RegisteredOrder ==
    SelectSeq([i \in 1 .. nattempts |-> i], LAMBDA i : i \in DOMAIN cr)

HasFrontier(i) == cr[i].url_list_high # <<>> \/ cr[i].url_list_low # <<>>

\* C1: with a non-empty rotation, once num_recipes has reached recipe_limit
\* the next thing run() does is return: no crawl() call is issued and no
\* crawler changes, whatever frontier the crawlers still hold.
C1_TargetReachedStops ==
    [][(pc = "running" /\ num_recipes >= recipe_limit /\ Len(crawlers) >= 1)
        => (pc' = "returned" /\ h_nsteps' = h_nsteps /\ cr' = cr
            /\ num_recipes' = num_recipes)]_vars

\* run() has returned on reaching a positive target while a crawler other
\* than the last one stepped still has frontier entries
C1_Witness ==
    /\ pc = "returned"
    /\ recipe_limit > 0
    /\ num_recipes >= recipe_limit
    /\ h_last.kind = "count"
    /\ \E i \in Range(crawlers) : i # h_last.id /\ HasFrontier(i)

\* C2: when the last active crawler has been retired with num_recipes still
\* below recipe_limit, run() ends by returning normally.
C2_LastRetiredReturns ==
    (crawlers = <<>> /\ inactive_crawler # <<>> /\ num_recipes < recipe_limit
        /\ pc # "running")
    => pc = "returned"

\* C3: results_dict() is the concatenation of the ledgers of all registered
\* crawlers, retired ones included, in registration order, and its length is
\* num_recipes.
C3_ResultsAllLedgers ==
    /\ results_dict = extend_all(RegisteredOrder, cr, 1)
    /\ Len(results_dict) = num_recipes

\* C4: while no crawler has signalled exhaustion, the k-th crawl() call
\* (k counted from 0) goes to the crawler at position k mod n of the
\* registration order.
C4_RoundRobin ==
    (h_nsteps > 0 /\ h_signalled = <<>>)
    => /\ crawlers = RegisteredOrder
       /\ h_last.id = RegisteredOrder[((h_nsteps - 1) % Len(RegisteredOrder)) + 1]

\* two crawlers have each been stepped at least twice and none has signalled
C4_Witness ==
    /\ Len(crawlers) >= 2
    /\ h_signalled = <<>>
    /\ h_nsteps >= 2 * Len(crawlers)

\* C5: a crawler that has signalled AnchorListsEmptyError is no longer in the
\* active rotation and is never stepped again (so it never signals twice).
C5_RetiredNeverActive ==
    /\ \A k \in DOMAIN h_signalled : h_signalled[k] \notin Range(crawlers)
    /\ \A j, k \in DOMAIN h_signalled : j # k => h_signalled[j] # h_signalled[k]

\* C6: a loop iteration whose crawl() signals exhaustion removes exactly the
\* signalling crawler from the active list and appends it to the retired
\* list; num_recipes and every crawler's state are unchanged.
C6_ExhaustedTickFrame ==
    [][(Len(h_signalled') = Len(h_signalled) + 1)
        => LET who == Last(h_signalled')
           IN  /\ crawlers' = SelectSeq(crawlers, LAMBDA c : c # who)
               /\ inactive_crawler' = Append(inactive_crawler, who)
               /\ num_recipes' = num_recipes
               /\ cr' = cr]_vars

\* C7: run() with no registered crawler returns without issuing a step and
\* without an error.
C7_NoCrawlersReturns ==
    (DOMAIN cr = {} /\ pc \notin {"idle", "running"})
    => (pc = "returned" /\ h_nsteps = 0)

\* the duplicate relation of the claim: equal url, or equal name,
\* instructions and ingredients
Duplicate(a, b) ==
    \/ a.url = b.url
    \/ /\ a.name = b.name
       /\ a.recipeInstructions = b.recipeInstructions
       /\ a.recipeIngredient = b.recipeIngredient

\* C8: _has_similar_recipe(new) returns the index of a ledger entry that is a
\* duplicate of new (equal url, or equal name, instructions and ingredients)
\* when the ledger has one, and -1 exactly when it has none.
C8_SimilarIff ==
    (probe.fn = "has_similar_recipe" /\ probe.done)
    => IF \E i \in DOMAIN probe.recipe_json : Duplicate(probe.recipe_json[i], probe.recipe)
       THEN /\ probe.result \in 0 .. (Len(probe.recipe_json) - 1)
            /\ Duplicate(probe.recipe_json[probe.result + 1], probe.recipe)
       ELSE probe.result = -1

\* a hit on the second entry, whose url equals the new record's while name,
\* instructions and ingredients all differ
C8_Witness ==
    /\ probe.fn = "has_similar_recipe"
    /\ probe.done
    /\ probe.result = 1
    /\ LET e == probe.recipe_json[2]
       IN  /\ e.url = probe.recipe.url
           /\ e.name # probe.recipe.name
           /\ e.recipeInstructions # probe.recipe.recipeInstructions
           /\ e.recipeIngredient # probe.recipe.recipeIngredient

\* C9: a crawl() of a standard Crawler whose page yields more than one recipe
\* record ends run() with an exception; no ledger grows and num_recipes keeps
\* its value.
C9_MultipleRecipesAbort ==
    [][(h_nsteps' = h_nsteps + 1 /\ h_last'.nscraped > 1
            /\ cr[h_last'.id].cls = "Crawler")
        => /\ pc' = "raised"
           /\ err' \notin {"none", "AnchorListsEmptyError"}
           /\ num_recipes' = num_recipes
           /\ \A i \in DOMAIN cr : cr'[i].recipe_json = cr[i].recipe_json]_vars

\* run() was ended by a page with several recipes after a recipe had been stored
C9_Witness ==
    /\ pc = "raised"
    /\ h_last.nscraped > 1
    /\ err = "TypeError"
    /\ num_recipes > 0

\* C10: an add_crawler() whose robots.txt fetch fails raises
\* RecipeCrawlerNetworkError and leaves the scheduler as it was; the crawler is
\* in neither list, is no crawler object of the scheduler and is never stepped.
C10_RobotsFailureNotRegistered ==
    [][/\ (nattempts' = nattempts + 1 /\ nattempts' \in h_robots_failed')
          => /\ err' = "RecipeCrawlerNetworkError"
             /\ UNCHANGED <<crawlers, inactive_crawler, crawler_iter, cr,
                            num_recipes, recipe_limit>>
       /\ \A id \in h_robots_failed' :
             /\ id \notin DOMAIN cr'
             /\ id \notin Range(crawlers') \cup Range(inactive_crawler')
             /\ h_last'.id # id]_vars

\* a registration failed on robots.txt and run() went on to step another crawler
C10_Witness ==
    /\ h_robots_failed # {}
    /\ err = "RecipeCrawlerNetworkError"
    /\ h_nsteps > 0

---------------------------------------------------------------------------
(* C11: a loop iteration whose requests.get fails (timeout, connection error)
   is not retried: the exception leaves crawl() and run(), so the run stops;
   the url was fetched once (one GET counted, the url recorded as visited and
   gone from both lists, so no later pop can fetch it again), and neither a
   ledger nor the global counter changes in that step. *)
C11_FetchFailureStopsRun ==
    [][(h_nsteps' = h_nsteps + 1 /\ h_last'.fetch = "failed")
       => LET id == h_last'.id
              url == Last(cr'[id].been_there_urls)
          IN  /\ pc' = "raised"
              /\ err' = "RequestException"
              /\ num_recipes' = num_recipes
              /\ \A i \in DOMAIN cr : cr'[i].recipe_json = cr[i].recipe_json
              /\ cr'[id].num_get_calls = cr[id].num_get_calls + 1
              /\ cr'[id].been_there_urls = Append(cr[id].been_there_urls, url)
              /\ url \in Range(cr[id].url_list_high) \cup Range(cr[id].url_list_low)
              /\ url \notin Range(cr'[id].url_list_high) \cup Range(cr'[id].url_list_low)
              /\ \A i \in DOMAIN cr \ {id} : cr'[i] = cr[i]]_vars

\* a fetch failed in the second iteration, after the other crawler stored a recipe
C11_Witness ==
    /\ pc = "raised"
    /\ h_last.fetch = "failed"
    /\ h_nsteps >= 2
    /\ num_recipes >= 1

---------------------------------------------------------------------------
(* URLTest.is_same_domain on its own: any base URL, any URL *)

\* URLs written from their parts: a scheme, an authority and a path; host ""
\* is a reference without scheme and authority, which is its path alone
BuildUrl(c) == IF c.host = "" THEN c.path ELSE <<c.scheme, c.host>> \o c.path

ProbeHosts == {"a.com", "A.COM", "A.com", "b.com", "a.com:8080"}

ProbePaths == {<<"/">>, <<"/", "r", "/">>, <<"/", "x">>}

\* the base URLs a URLTest is constructed with
ProbeBases == [scheme : {"https://", "http://"}, host : ProbeHosts, path : {<<"/">>, <<"/", "r", "/">>}]

\* the URLs handed to is_same_domain
ProbeUrls ==
    [scheme : {"https://", "HTTPS://", "http://", "//"}, host : ProbeHosts, path : ProbePaths]
    \cup [scheme : {""}, host : {""}, path : ProbePaths]

InitSameDomain ==
    /\ recipe_limit = 0
    /\ num_recipes = 0
    /\ crawlers = <<>>
    /\ inactive_crawler = <<>>
    /\ crawler_iter = IterUnset
    /\ cr = <<>>
    /\ pc = "probe"
    /\ err = "none"
    /\ nattempts = 0
    /\ h_nsteps = 0
    /\ h_last = NoTick
    /\ h_signalled = <<>>
    /\ h_robots_failed = {}
    /\ probe \in [fn : {"is_same_domain"}, base : ProbeBases, url : ProbeUrls,
                  done : {FALSE}, result : {FALSE}]

\* URLTest(base).is_same_domain(url)
CallSameDomain ==
    /\ pc = "probe"
    /\ probe.fn = "is_same_domain"
    /\ ~probe.done
    /\ probe' = [probe EXCEPT
                    !.done = TRUE,
                    !.result = is_same_domain(URLTest_init(BuildUrl(probe.base)),
                                              BuildUrl(probe.url))]
    /\ UNCHANGED <<recipe_limit, num_recipes, crawlers, inactive_crawler, crawler_iter,
                   cr, pc, err, nattempts, h_nsteps, h_last, h_signalled,
                   h_robots_failed>>

NextSameDomain == CallSameDomain

SpecSameDomain == InitSameDomain /\ [][NextSameDomain]_vars

\* the authorities that name the same host once letter case is ignored, by the
\* spelling the URL was written with
SameAuthorityIgnoringCase(h1, h2) ==
    \/ h1 = h2
    \/ {h1, h2} \subseteq {"a.com", "A.COM", "A.com"}

(* C12: is_same_domain(url) is true exactly when the authority of url and the
   authority of the base URL are equal once letter case is ignored: true for
   the same authority whatever the casing of the host, the scheme and the
   path, false for any other authority (another host, a port, none). *)
C12_SameDomainIffAuthority ==
    (probe.fn = "is_same_domain" /\ probe.done)
    => (probe.result <=> SameAuthorityIgnoringCase(probe.base.host, probe.url.host))

\* true was returned for a URL whose host casing and path differ from the base's
C12_Witness ==
    /\ probe.fn = "is_same_domain"
    /\ probe.done
    /\ probe.result
    /\ probe.base.host # probe.url.host
    /\ probe.base.path # probe.url.path

---------------------------------------------------------------------------
(* One Crawler on its own: crawl() called repeatedly on the pages of its site,
   and _rank_url applied to an href in any state the crawler reaches *)

UrlA_R1 == <<"https://", "A.COM", "/", "r", "/", "1">>
UrlB_x == <<"https://", "b.com", "/", "x">>
UrlA_r2 == <<"https://", "a.com", "/", "r", "/", "2">>

\* hrefs as a.get("href") returns them: absent, empty, fragment and pseudo-scheme
\* links, absolute-path, relative-path, absolute on and off the site, with an
\* upper-case host, protocol-relative
HrefOwnPage == EmptyStr
HrefFragment == <<"#", "top">>
HrefJavascript == <<"javascript:", "go()">>
HrefMailto == <<"mailto:", "me@a.com">>
HrefRoot == <<"/">>
HrefX == <<"/", "x">>
HrefR1 == <<"/", "r", "/", "1">>
HrefRelR1 == <<"r", "/", "1">>
HrefR2 == <<"/", "r", "/", "2">>
HrefProtoRel == <<"//", "a.com", "/", "r", "/", "1">>

RankHrefs ==
    {None, HrefOwnPage, HrefFragment, HrefJavascript, HrefMailto, HrefRoot, HrefX,
     HrefR1, HrefRelR1, HrefProtoRel, UrlA_r1, UrlA_R1, UrlA_x, UrlB_x}

\* the anchors of the pages served to the crawler on its own
CrawlerAnchorLists ==
    { <<>>,
      <<HrefR1, HrefX, HrefR2>>,
      <<HrefOwnPage, None, HrefFragment>>,
      <<UrlA_R1, HrefRelR1, HrefProtoRel>>,
      <<HrefRoot, HrefMailto, UrlB_x>>,
      <<HrefR1, HrefX, UrlA_r1>> }

CrawlerResponses ==
    {FailedResponse} \cup
    [ok : {TRUE}, anchors : CrawlerAnchorLists, recipes : {<<>>, <<RecipeTaco>>},
     length : ContentLengths]

\* the sites a crawler is constructed for on its own: the configured ones, and
\* a site whose start URL its robots.txt disallows for every agent
CrawlerConfigs ==
    SiteConfigs \cup
    { [url |-> UrlB, recipe_url |-> None, license |-> None, start_url |-> UrlB_x,
       site_title |-> "Site B, index"] }

\* probe before _rank_url is called in the current state
NoRank == [fn |-> "rank_url", done |-> FALSE]

InitCrawler ==
    /\ recipe_limit = 0
    /\ num_recipes = 0
    /\ crawlers = <<>>
    /\ inactive_crawler = <<>>
    /\ crawler_iter = IterUnset
    /\ \E cfg \in CrawlerConfigs :
          cr = <<new_crawler(cfg.url, cfg.recipe_url, cfg.license, cfg.start_url,
                             cfg.site_title, TRUE).obj>>
    /\ pc = "crawler"
    /\ err = "none"
    /\ nattempts = 1
    /\ h_nsteps = 0
    /\ h_last = [kind |-> "none", anchors |-> <<>>]
    /\ h_signalled = <<>>
    /\ h_robots_failed = {}
    /\ probe = NoRank

\* crawl() on the crawler; an exception ends the use of the object
Crawl(r, resp) ==
    LET out == crawl(cr[1], r, resp)
    IN  /\ pc = "crawler"
        /\ cr' = [cr EXCEPT ![1] = out.self]
        /\ num_recipes' = IF out.raised THEN num_recipes
                           ELSE num_recipes + out.num_recipes
        /\ pc' = IF out.raised THEN "raised" ELSE pc
        /\ err' = IF out.raised THEN out.exc ELSE err
        /\ h_nsteps' = h_nsteps + 1
        /\ h_last' = IF out.raised THEN [kind |-> "raise", anchors |-> <<>>]
                      ELSE [kind |-> "count", anchors |-> resp.anchors]
        /\ probe' = NoRank
        /\ UNCHANGED <<recipe_limit, crawlers, inactive_crawler, crawler_iter,
                       nattempts, h_signalled, h_robots_failed>>

\* _rank_url(href) in the current state, and _mine_anchors of a page whose only
\* anchor is href (the lists it would leave); crawl() calls them after the
\* page's own url was recorded as visited
RankUrl(href) ==
    LET ranked == rank_url(cr[1], href)
        mined == mine_anchors(cr[1], <<href>>)
    IN  /\ pc = "crawler"
        /\ cr[1].been_there_urls # <<>>
        /\ ~probe.done
        /\ probe' = [fn |-> "rank_url", done |-> TRUE, href |-> href,
                     score |-> ranked[1], url |-> ranked[2],
                     url_list_high |-> mined.url_list_high,
                     url_list_low |-> mined.url_list_low]
        /\ UNCHANGED <<recipe_limit, num_recipes, crawlers, inactive_crawler,
                       crawler_iter, cr, pc, err, nattempts, h_nsteps, h_last,
                       h_signalled, h_robots_failed>>

NextCrawlerAlone ==
    \/ \E r \in RandDraws(cr[1]), resp \in CrawlerResponses : Crawl(r, resp)
    \/ \E href \in RankHrefs : RankUrl(href)

SpecCrawler == InitCrawler /\ [][NextCrawlerAlone]_vars

\* the absolute URL an href string stands for on the crawler's site
Resolved(self, href) ==
    IF is_absolute_url(href) THEN href ELSE urljoin(self.base_url, href)

\* _rank_url has been applied to an href in the current crawler state
Ranked == probe.fn = "rank_url" /\ probe.done

(* C13: an href whose resolved absolute URL is already in been_there_urls gets
   a negative score from _rank_url, whether or not the URL starts with the
   recipe-path prefix; mining a page with that anchor leaves both frontier
   lists as they were. *)
C13_VisitedIsRejected ==
    (Ranked /\ IsStr(probe.href)
       /\ Resolved(cr[1], probe.href) \in Range(cr[1].been_there_urls))
    => /\ probe.score < 0
       /\ probe.url_list_high = cr[1].url_list_high
       /\ probe.url_list_low = cr[1].url_list_low

\* a visited URL under the configured recipe path was ranked, and rejected as
\* visited
C13_Witness ==
    /\ Ranked
    /\ IsStr(probe.href)
    /\ Resolved(cr[1], probe.href) \in Range(cr[1].been_there_urls)
    /\ cr[1].recipe_url # EmptyStr
    /\ startswith(Resolved(cr[1], probe.href), cr[1].recipe_url)
    /\ probe.score = -4

\* the href is a link to a page: a string that is not a fragment, javascript:
\* or mailto: link
PageLink(href) ==
    /\ IsStr(href)
    /\ ~startswith(href, <<"#">>)
    /\ ~startswith(href, <<"javascript:">>)
    /\ ~startswith(href, <<"mailto:">>)

\* the href passes every test that precedes the prefix test: it is relative or
\* on the crawler's domain, its URL is not visited and the crawler's robots
\* agent allows it
Eligible(self, href) ==
    /\ PageLink(href)
    /\ is_absolute_url(href) => is_same_domain(self.urltest, href)
    /\ Resolved(self, href) \notin Range(self.been_there_urls)
    /\ allowed(self.agent, Resolved(self, href))

(* C14: for an href that is relative or on-domain, not visited and allowed by
   the crawler's robots agent, _rank_url returns score 1 exactly when a
   non-empty recipe-path prefix is configured and the resolved URL starts with
   it, and score 0 otherwise; a crawler without a configured prefix never has a
   mined URL in its high list (only the seed is ever there). *)
C14_HighIffRecipePrefix ==
    /\ (Ranked /\ Eligible(cr[1], probe.href))
       => /\ probe.url = Resolved(cr[1], probe.href)
          /\ probe.score = IF cr[1].recipe_url # EmptyStr
                               /\ startswith(probe.url, cr[1].recipe_url)
                            THEN 1 ELSE 0
    /\ (pc \in {"crawler", "raised"} /\ cr[1].recipe_url = EmptyStr)
       => /\ cr[1].been_there_urls # <<>> => cr[1].url_list_high = <<>>
          /\ Ranked => probe.url_list_high = cr[1].url_list_high

\* an eligible URL under the configured prefix was ranked 1 and mined into the
\* high list
C14_Witness ==
    /\ Ranked
    /\ Eligible(cr[1], probe.href)
    /\ cr[1].recipe_url # EmptyStr
    /\ probe.score = 1
    /\ probe.url_list_high = Append(cr[1].url_list_high, probe.url)

(* C15: an href that is not a string, or is the empty string, gets a negative
   score from _rank_url and mining it leaves both frontier lists as they were,
   in every crawler state, also when the base URL has not been visited because
   a separate start URL was the seed. *)
C15_NonStringAndEmptyRejected ==
    (Ranked /\ probe.href \in {None, EmptyStr})
    => /\ probe.score < 0
       /\ probe.url_list_high = cr[1].url_list_high
       /\ probe.url_list_low = cr[1].url_list_low

(* C16: an href beginning with '#', 'javascript:' or 'mailto:' gets a negative
   score from _rank_url and is not mined into either list, whatever the site's
   base URL, visited list, robots rules and recipe-path prefix. *)
C16_FragmentAndPseudoSchemeRejected ==
    (Ranked /\ IsStr(probe.href)
       /\ (\/ startswith(probe.href, <<"#">>)
           \/ startswith(probe.href, <<"javascript:">>)
           \/ startswith(probe.href, <<"mailto:">>)))
    => /\ probe.score < 0
       /\ probe.url = probe.href
       /\ probe.url_list_high = cr[1].url_list_high
       /\ probe.url_list_low = cr[1].url_list_low

\* a mailto: href was ranked on a crawler with a recipe-path prefix that has
\* visited two pages
C16_Witness ==
    /\ Ranked
    /\ probe.href = HrefMailto
    /\ probe.score = -2
    /\ cr[1].recipe_url # EmptyStr
    /\ Len(cr[1].been_there_urls) >= 2

\* the rules of the site's robots.txt that apply to the agent name
\* USER_AGENT_ROBOTS ("RecipeCrawlerPY")
OwnAgentRules(self) == RobotsFile(urljoin(self.base_url, <<"robots.txt">>)).RecipeCrawlerPY

(* C17: when the site's robots.txt disallows the resolved URL of an href for
   the agent name RecipeCrawlerPY, _rank_url gives the href a negative score,
   also when the rules for that name differ from the rules for '*'. *)
C17_OwnAgentRulesObeyed ==
    (Ranked /\ IsStr(probe.href)
       /\ ~allowed(OwnAgentRules(cr[1]), Resolved(cr[1], probe.href)))
    => probe.score < 0

\* no element occurs at two positions of the list
NoRepeats(s) == \A i, j \in DOMAIN s : i # j => s[i] # s[j]

(* C18: in every state a crawler reaches, no URL occurs twice in
   _url_list_high, none occurs twice in _url_list_low, none is in both lists,
   and no URL of either list is in been_there_urls. *)
C18_FrontierInvariant ==
    \A i \in DOMAIN cr :
        /\ NoRepeats(cr[i].url_list_high)
        /\ NoRepeats(cr[i].url_list_low)
        /\ Range(cr[i].url_list_high) \cap Range(cr[i].url_list_low) = {}
        /\ (Range(cr[i].url_list_high) \cup Range(cr[i].url_list_low))
              \cap Range(cr[i].been_there_urls) = {}

\* the page mined last linked twice to itself and once to a URL already in the
\* low list: nothing was inserted
C18_Witness ==
    /\ h_last.kind = "count"
    /\ h_last.anchors = <<HrefR1, HrefX, UrlA_r1>>
    /\ cr[1].been_there_urls = <<UrlA, UrlA_r1>>
    /\ cr[1].url_list_high = <<>>
    /\ cr[1].url_list_low = <<UrlA_x>>

\* no two records of the ledger have the same url, or the same name,
\* instructions and ingredients
NoDuplicates(ledger) ==
    \A a, b \in DOMAIN ledger :
        a # b => /\ ledger[a].url # ledger[b].url
                 /\ ~(/\ ledger[a].name = ledger[b].name
                       /\ ledger[a].recipeInstructions = ledger[b].recipeInstructions
                       /\ ledger[a].recipeIngredient = ledger[b].recipeIngredient)

(* C19: a step changes a crawler's recipe_json only by appending one record
   for which _has_similar_recipe returns -1 on the ledger before the step, and
   the ledger after the step has no two records with equal url and no two
   records with equal name, recipeInstructions and recipeIngredient. *)
C19_LedgerWithoutDuplicates ==
    [][\A i \in DOMAIN cr :
          /\ i \in DOMAIN cr'
          /\ NoDuplicates(cr'[i].recipe_json)
          /\ cr'[i].recipe_json # cr[i].recipe_json
             => /\ Len(cr'[i].recipe_json) = Len(cr[i].recipe_json) + 1
                /\ Front(cr'[i].recipe_json) = cr[i].recipe_json
                /\ has_similar_recipe(cr[i], Last(cr'[i].recipe_json)) = -1]_vars

\* a crawler holding a record scraped one recipe in the last iteration and
\* stored nothing: the record was judged similar
C19_Witness ==
    /\ h_last.kind = "count"
    /\ h_last.nscraped = 1
    /\ h_last.count = 0
    /\ Len(cr[h_last.id].recipe_json) >= 1

RECURSIVE LedgerTotal(_)
\* the number of records in the ledgers of the crawlers 1..n, that is of every
\* crawler registered so far, in the rotation or retired
LedgerTotal(n) ==
    IF n = 0 THEN 0
    ELSE (IF n \in DOMAIN cr THEN Len(cr[n].recipe_json) ELSE 0) + LedgerTotal(n - 1)

(* C20: before the first and after every loop iteration of run(), whatever its
   outcome, num_recipes equals the sum of the lengths of recipe_json over all
   registered crawlers, those in the rotation and those retired. *)
C20_CounterIsLedgerTotal == num_recipes = LedgerTotal(nattempts)

\* two crawlers hold one record each, and one of them has been retired
C20_Witness ==
    /\ num_recipes = 2
    /\ Len(inactive_crawler) = 1
    /\ Len(crawlers) = 1
    /\ Len(cr[inactive_crawler[1]].recipe_json) = 1
    /\ Len(cr[crawlers[1]].recipe_json) = 1

\* list s is an initial part of list t
IsPrefix(s, t) == Len(s) <= Len(t) /\ SubSeq(t, 1, Len(s)) = s

\* list s without one occurrence of u is an initial part of list t
IsPrefixWithout(s, u, t) ==
    \E k \in DOMAIN s : s[k] = u /\ IsPrefix(RemoveAt(s, k), t)

(* C21: a crawl() call on a crawler whose high list is non-empty fetches the
   url appended to it last and takes nothing from the low list; with the high
   list empty and the low list not, it fetches a url of the low list; it ends
   with AnchorListsEmptyError exactly when both lists are empty, and then
   been_there_urls, num_get_calls and recipe_json are unchanged. *)
C21_PopRule ==
    [][(h_nsteps' = h_nsteps + 1 /\ pc = "crawler")
       => LET pre == cr[1]
              post == cr'[1]
          IN  /\ pre.url_list_high # <<>>
                 => /\ post.been_there_urls
                         = Append(pre.been_there_urls, Last(pre.url_list_high))
                    /\ post.num_get_calls = pre.num_get_calls + 1
                    /\ IsPrefix(Front(pre.url_list_high), post.url_list_high)
                    /\ IsPrefix(pre.url_list_low, post.url_list_low)
              /\ (pre.url_list_high = <<>> /\ pre.url_list_low # <<>>)
                 => /\ Len(post.been_there_urls) = Len(pre.been_there_urls) + 1
                    /\ Front(post.been_there_urls) = pre.been_there_urls
                    /\ post.num_get_calls = pre.num_get_calls + 1
                    /\ IsPrefixWithout(pre.url_list_low, Last(post.been_there_urls),
                                       post.url_list_low)
              /\ (err' = "AnchorListsEmptyError")
                 <=> (pre.url_list_high = <<>> /\ pre.url_list_low = <<>>)
              /\ (err' = "AnchorListsEmptyError")
                 => /\ post.been_there_urls = pre.been_there_urls
                    /\ post.num_get_calls = pre.num_get_calls
                    /\ post.recipe_json = pre.recipe_json]_vars

\* the high list held /r/1 and then /r/2 and the low list /x: the call fetched
\* /r/2 and left the rest in place
C21_Witness ==
    /\ pc = "crawler"
    /\ cr[1].been_there_urls = <<UrlA, UrlA_r2>>
    /\ cr[1].url_list_high = <<UrlA_r1>>
    /\ cr[1].url_list_low = <<UrlA_x>>

(* C22: a crawl() call that returns a count returns 0 or 1; it returns 1
   exactly when the call appended one record to the crawler's recipe_json, and
   when it returns 0 (nothing scraped, or a similar record already stored)
   recipe_json is unchanged. *)
C22_CountIsAppended ==
    [][(h_nsteps' = h_nsteps + 1 /\ h_last'.kind = "count")
       => LET id == h_last'.id
              n == h_last'.count
          IN  /\ n \in {0, 1}
              /\ num_recipes' = num_recipes + n
              /\ n = 1 <=> Len(cr'[id].recipe_json) = Len(cr[id].recipe_json) + 1
              /\ n = 1 => Front(cr'[id].recipe_json) = cr[id].recipe_json
              /\ n = 0 => cr'[id].recipe_json = cr[id].recipe_json
              /\ h_last'.nscraped = 0 => n = 0]_vars

\* the last call returned 1 for the second record of the crawler's ledger
C22_Witness ==
    /\ h_last.kind = "count"
    /\ h_last.count = 1
    /\ Len(cr[h_last.id].recipe_json) = 2

(* C23: over any sequence of crawl() calls of one crawler been_there_urls only
   grows at its end, by at most one url per call, a url that was not in it
   before; so it never holds a url twice, and every GET counted was made for a
   different url. *)
C23_NoUrlFetchedTwice ==
    [][LET pre == cr[1].been_there_urls
           post == cr'[1].been_there_urls
       IN  /\ IsPrefix(pre, post)
           /\ Len(post) <= Len(pre) + 1
           /\ Len(post) = Len(pre) + 1 => Last(post) \notin Range(pre)
           /\ NoRepeats(post)
           /\ cr'[1].num_get_calls = Len(post)]_vars

\* the page fetched last linked back to the visited base URL, which was not
\* listed again
C23_Witness ==
    /\ h_last.kind = "count"
    /\ h_last.anchors = <<HrefRoot, HrefMailto, UrlB_x>>
    /\ Len(cr[1].been_there_urls) >= 2
    /\ cr[1].base_url \in Range(cr[1].been_there_urls)
    /\ cr[1].base_url \notin Range(cr[1].url_list_high) \cup Range(cr[1].url_list_low)
    /\ cr[1].url_list_low # <<>>

(* C24: across every step of the program, a loop iteration that retires a
   crawler included, each crawler's recipe_json before the step is an initial
   part of its recipe_json after the step: no record is removed, moved or
   replaced. *)
C24_LedgerAppendOnly ==
    [][\A i \in DOMAIN cr :
          /\ i \in DOMAIN cr'
          /\ IsPrefix(cr[i].recipe_json, cr'[i].recipe_json)]_vars

\* the last iteration retired a crawler that holds a record
C24_Witness ==
    /\ h_last.kind = "exhausted"
    /\ h_last.id \in Range(inactive_crawler)
    /\ Len(cr[h_last.id].recipe_json) >= 1

(* C25: a loop iteration, which calls crawl() on one crawler, leaves the two
   url lists, been_there_urls, recipe_json, num_get_calls and
   num_bytes_downloaded of every other registered crawler, in the rotation or
   retired, unchanged. *)
C25_CrawlerIsolation ==
    [][h_nsteps' = h_nsteps + 1
       => \A i \in DOMAIN cr \ {h_last'.id} :
             /\ cr'[i].url_list_high = cr[i].url_list_high
             /\ cr'[i].url_list_low = cr[i].url_list_low
             /\ cr'[i].been_there_urls = cr[i].been_there_urls
             /\ cr'[i].recipe_json = cr[i].recipe_json
             /\ cr'[i].num_get_calls = cr[i].num_get_calls
             /\ cr'[i].num_bytes_downloaded = cr[i].num_bytes_downloaded]_vars

\* the second crawler was stepped last and fetched a page, while the first
\* crawler holds a record, a visited url and a listed url of its own
C25_Witness ==
    /\ h_last.kind = "count"
    /\ h_last.id = 2
    /\ DOMAIN cr = {1, 2}
    /\ cr[2].been_there_urls # <<>>
    /\ cr[1].been_there_urls # <<>>
    /\ cr[1].been_there_urls # cr[2].been_there_urls
    /\ cr[1].recipe_json # <<>>
    /\ cr[1].url_list_low # <<>>

---------------------------------------------------------------------------
(* The first crawl() of a newly constructed crawler, of either class, on a
   page with one recipe: what the site's license setting and the scraped
   record make of the record stored *)

UrlMyPlate == <<"https://", "myplate.gov", "/">>

\* license settings of a site: none, empty, "proprietary" in three casings,
\* an absolute URL, a name that is not a URL
LicenseSettings ==
    {None, EmptyStr, <<"proprietary">>, <<"Proprietary">>, <<"PROPRIETARY">>,
     UrlLicense, <<"cc-by">>}

\* what the page's scraper yields: scrape_schema_recipe gives a dictionary that
\* may carry url and license; the recipe_scrapers drivers give ingredients,
\* title and instructions only
ScrapedRecipes(url) ==
    IF UsesRecipeScrapers(url)
    THEN [url : {None}, name : {"pizza", "taco"}, recipeInstructions : {"bake"},
          recipeIngredient : {"dough"}, license : {None}]
    ELSE [url : {None, UrlA_r1}, name : {"pizza", "taco"}, recipeInstructions : {"bake"},
          recipeIngredient : {"dough"}, license : {None, UrlPageLicense}]

ScrapeProbes ==
    {pr \in [fn : {"crawl"}, url : {UrlA, UrlMyPlate}, license : LicenseSettings,
             recipe : ScrapedRecipes(UrlA), done : {FALSE}, recipe_json : {<<>>}] :
        pr.recipe \in ScrapedRecipes(pr.url)}

InitScrape ==
    /\ recipe_limit = 0
    /\ num_recipes = 0
    /\ crawlers = <<>>
    /\ inactive_crawler = <<>>
    /\ crawler_iter = IterUnset
    /\ cr = <<>>
    /\ pc = "probe"
    /\ err = "none"
    /\ nattempts = 0
    /\ h_nsteps = 0
    /\ h_last = NoTick
    /\ h_signalled = <<>>
    /\ h_robots_failed = {}
    /\ probe \in ScrapeProbes

\* the constructor for the site, then crawl() on the page of the seed
CrawlFirstPage ==
    LET self == new_crawler(probe.url, None, probe.license, None, "site", TRUE).obj
        out == crawl(self, 0, [ok |-> TRUE, anchors |-> <<>>,
                               recipes |-> <<probe.recipe>>, length |-> 1])
    IN  /\ pc = "probe"
        /\ probe.fn = "crawl"
        /\ ~probe.done
        /\ probe' = [probe EXCEPT !.done = TRUE, !.recipe_json = out.self.recipe_json]
        /\ UNCHANGED <<recipe_limit, num_recipes, crawlers, inactive_crawler, crawler_iter,
                       cr, pc, err, nattempts, h_nsteps, h_last, h_signalled,
                       h_robots_failed>>

NextScrape == CrawlFirstPage

SpecScrape == InitScrape /\ [][NextScrape]_vars

\* the site's license setting is absent or is "proprietary" in some casing
LicenseWithheld(license) ==
    license \in {None, EmptyStr, <<"proprietary">>, <<"Proprietary">>, <<"PROPRIETARY">>}

(* C26: for a site whose license setting is absent or "proprietary" in any
   letter case, a record stored in recipe_json has no license field other than
   the one the scraper supplied, for Crawler and for RecipeScrapersCrawler;
   and a url or license the scraper supplied is stored as supplied. *)
C26_LicenseOnlyWhenConfigured ==
    (probe.fn = "crawl" /\ probe.done)
    => \A k \in DOMAIN probe.recipe_json :
          LET rec == probe.recipe_json[k]
          IN  /\ LicenseWithheld(probe.license) => rec.license = probe.recipe.license
              /\ probe.recipe.url # None => rec.url = probe.recipe.url
              /\ probe.recipe.license # None => rec.license = probe.recipe.license

\* the same statement for the sites handled by class Crawler alone
CrawlerClassLicenseRule ==
    ~UsesRecipeScrapers(probe.url) => C26_LicenseOnlyWhenConfigured

---------------------------------------------------------------------------
(* run() over three registered sites: main() has registered the three sites of
   the configuration, in some order, and calls run() *)

\* the three sites in an order of the website list
SiteOrders ==
    {o \in [1 .. 3 -> SiteConfigs] : \A i, j \in 1 .. 3 : i # j => o[i] # o[j]}

\* pages for the rotation: a failed fetch, and pages with or without a link
\* and with or without a recipe
RotationResponses ==
    {FailedResponse} \cup
    [ok : {TRUE}, anchors : {<<>>, <<HrefX>>}, recipes : {<<>>, <<RecipePizza>>},
     length : ContentLengths]

InitRotation ==
    /\ recipe_limit = MaxLimit
    /\ num_recipes = 0
    /\ \E o \in SiteOrders :
          cr = [i \in 1 .. 3 |->
                  new_crawler(o[i].url, o[i].recipe_url, o[i].license, o[i].start_url,
                              o[i].site_title, TRUE).obj]
    /\ crawlers = <<1, 2, 3>>
    /\ inactive_crawler = <<>>
    /\ crawler_iter = cycle
    /\ pc = "idle"
    /\ err = "none"
    /\ nattempts = 3
    /\ h_nsteps = 0
    /\ h_last = NoTick
    /\ h_signalled = <<>>
    /\ h_robots_failed = {}
    /\ probe = NoProbe

NextRotation ==
    \/ Run
    \/ RunReturn
    \/ RunStopIteration
    \/ \E r \in RandDraws(NextCrawler), resp \in RotationResponses : RunCrawl(r, resp)
    \/ RunExhausted
    \/ \E r \in RandDraws(NextCrawler), resp \in RotationResponses : RunCrawlRaises(r, resp)

SpecRotation == InitRotation /\ [][NextRotation]_vars

(* C27: when run() calls a crawler that it has called before, every other
   crawler that is in the rotation now (and so has been throughout) has been
   called in between: after a retirement the rotation goes on with the
   successor of the retired crawler. Stated for the runs in which the
   crawlers retired are exactly those that raised AnchorListsEmptyError. *)
C27_FairAcrossRetirement ==
    (/\ h_last.kind \in {"count", "exhausted", "raise"}
     /\ h_last.again
     /\ h_signalled = inactive_crawler)
    => \A j \in Range(crawlers) \ {h_last.id} : j \in h_last.gap

(* C28: every url a crawler has fetched, the seed (start URL or base URL)
   included, is allowed by the robots.txt rules the crawler holds for its
   site. *)
C28_FetchedUrlsAllowed ==
    pc \in {"crawler", "raised"}
    => \A k \in DOMAIN cr[1].been_there_urls :
          allowed(cr[1].agent, cr[1].been_there_urls[k])

\* the same statement for the urls fetched after the seed
MinedUrlsAllowed ==
    pc \in {"crawler", "raised"}
    => \A k \in DOMAIN cr[1].been_there_urls :
          k > 1 => allowed(cr[1].agent, cr[1].been_there_urls[k])

\* the host of a url, in lower case
Authority(url) == lower(netloc(url))

(* C29: every url in either list of a crawler, whatever the shape of the href
   it was mined from (absolute, relative, protocol-relative, upper-case
   scheme, another scheme), has the authority of the site's base URL, compared
   without regard to letter case. *)
C29_ListedUrlsOnSite ==
    pc \in {"crawler", "raised"}
    => \A u \in Range(cr[1].url_list_high) \cup Range(cr[1].url_list_low) :
          Authority(u) = Authority(cr[1].base_url)

(* C30: num_recipes never exceeds recipe_limit (a limit of 0 or more), and
   when run() has returned after at least one loop iteration num_recipes
   equals recipe_limit. *)
C30_CounterWithinTarget ==
    /\ num_recipes <= recipe_limit
    /\ (pc = "returned" /\ h_nsteps >= 1) => num_recipes = recipe_limit

\* run() has returned after iterations on both crawlers, one of which scraped
\* a record that was not counted
C30_Witness ==
    /\ pc = "returned"
    /\ h_nsteps >= 3
    /\ recipe_limit >= 2
    /\ num_recipes = recipe_limit

(* C32: run() never raises RuntimeError: the crawler the rotation selects next
   is in the active list, so the search of remove_crawler for its base URL
   succeeds whenever that crawler signals exhaustion. *)
C32_RemoveAlwaysFinds ==
    /\ err # "RuntimeError"
    /\ CanStep =>
          /\ cycle_next(crawler_iter, crawlers).item \in Range(crawlers)
          /\ find_base_url(crawlers, cr, NextCrawler.base_url, 1) # 0

\* a crawler has signalled exhaustion and was retired while another one stays
\* in the rotation, and the loop goes on
C32_Witness ==
    /\ h_last.kind = "exhausted"
    /\ h_signalled # <<>>
    /\ Len(inactive_crawler) = 1
    /\ Len(crawlers) = 1
    /\ CanStep

---------------------------------------------------------------------------
(* main() and run() when no network call fails: robots.txt is fetched for
   every site and requests.get answers for every url picked *)

\* the answers of requests.get that are not failures: pages with any of the
\* anchor lists, and with no recipe, one recipe or several
FetchedResponses ==
    [ok : {TRUE}, anchors : AnchorLists,
     recipes : {<<>>, <<RecipePizza>>, <<RecipePizza, RecipeTaco>>},
     length : ContentLengths]

NextFetched ==
    \/ \E cfg \in Unregistered : AddCrawler(cfg, TRUE)
    \/ Run
    \/ RunReturn
    \/ RunIterUnset
    \/ RunStopIteration
    \/ \E r \in RandDraws(NextCrawler), resp \in FetchedResponses : RunCrawl(r, resp)
    \/ RunExhausted
    \/ \E r \in RandDraws(NextCrawler), resp \in FetchedResponses : RunCrawlRaises(r, resp)

\* the program is sequential and nothing blocks once the fetches answer: it
\* takes its next step as long as it has one
SpecFetched == Init /\ [][NextFetched]_vars /\ WF_vars(NextFetched)

\* every href a page of the sites can hold
SiteHrefs == UNION {Range(anchors) : anchors \in AnchorLists}

\* the urls a crawler can ever fetch: those it holds or has visited, and those
\* _mine_anchors lists for some href of the site
ReachableUrls(self) ==
    LET fresh == [self EXCEPT !.been_there_urls = <<>>]
    IN  Range(self.been_there_urls) \cup Range(self.url_list_high)
        \cup Range(self.url_list_low)
        \cup {rank_url(fresh, href)[2] :
                 href \in {h \in SiteHrefs : rank_url(fresh, h)[1] \in {0, 1}}}

RECURSIVE UrlTotal(_)
\* the number of reachable urls, added up over the crawlers 1 .. n
UrlTotal(n) ==
    IF n = 0 THEN 0 ELSE Cardinality(ReachableUrls(cr[n])) + UrlTotal(n - 1)

\* the bound on the loop iterations of run(): one per reachable url of each
\* crawler, and one per crawler for its retirement
StepBound == UrlTotal(Len(cr)) + Len(cr)

\* run() has been called, and the counter is at the target or no crawler is left
TargetOrAllRetired ==
    /\ pc # "idle"
    /\ (num_recipes >= recipe_limit \/ crawlers = <<>>)

\* run() is over: it has returned or an exception has left it
RunOver == pc \in {"returned", "raised"}

(* C31: when every fetch succeeds, run() takes at most (reachable urls +
   crawlers) loop iterations, and every execution reaches a state in which
   the counter is at the target or every crawler has been retired. *)
C31_ReachesTargetOrAllRetired ==
    /\ [](h_nsteps <= StepBound)
    /\ <>TargetOrAllRetired

(* C31, amended: when every fetch succeeds, run() takes at most (reachable
   urls, counted per crawler, + crawlers) loop iterations and every execution
   ends: run() returns, or an exception leaves it. *)
C31_RunEnds ==
    /\ [](h_nsteps <= StepBound)
    /\ <>RunOver

\* two crawlers have fetched every url they can reach and were retired, in as
\* many loop iterations as the bound allows
C31_Witness ==
    /\ pc = "raised"
    /\ err = "StopIteration"
    /\ Len(cr) = 2
    /\ Len(inactive_crawler) = 2
    /\ h_nsteps = StepBound

====
